---- MODULE Spec2Model ----
(***************************************************************************)
(* Zenith chess engine: the transposition table (CustomTT), the notation   *)
(* codec (bitmove_to_san / san_to_bitmove), the evaluator, the move        *)
(* orderer, the search (get_best_move / minimax / quiescence) and the      *)
(* driver loop of main.                                                    *)
(*                                                                         *)
(* The board is pleco's, an external library.  It is modelled by a small   *)
(* chess-like game played on real squares: each side has an immobile king, *)
(* a queen and a knight that move along fixed quiet and capture edges.     *)
(* Everything the engine asks of the board (side to move, legal moves,     *)
(* capture lookups, check, checkmate, stalemate, hash, static exchange     *)
(* evaluation, apply and undo) is computed from the pieces' squares.       *)
(***************************************************************************)
EXTENDS Integers, Sequences, FiniteSets, TLC

(***************************************************************************)
(* Program constants (engine.rs:4-6).                                      *)
(***************************************************************************)
MAX_DEPTH == 5
INFINITY == 1000000
MAX_PLY == 64

(***************************************************************************)
(* Bounds of the model.                                                    *)
(***************************************************************************)
\* get_best_move is called with max_depth in 1..MaxSearchDepth
MaxSearchDepth == 6
\* search roots are the positions at most MaxRootPly plies from the start
MaxRootPly == 6
\* depths offered to CustomTT::store / probe in the table specification
MaxTTDepth == 1
\* main stops after MaxGameMoves calls of get_best_move
MaxGameMoves == 3

(***************************************************************************)
(* Squares, players, pieces.                                               *)
(***************************************************************************)
SQ(file, rank) == rank * 8 + file
file_idx_of_sq(sq) == sq % 8
rank_idx_of_sq(sq) == sq \div 8
NO_SQ == SQ(0, 8)

b1 == SQ(1, 0)
d1 == SQ(3, 0)
e1 == SQ(4, 0)
a3 == SQ(0, 2)
c3 == SQ(2, 2)
c6 == SQ(2, 5)
b8 == SQ(1, 7)
d8 == SQ(3, 7)
e8 == SQ(4, 7)

Mirror(sq) == SQ(file_idx_of_sq(sq), 7 - rank_idx_of_sq(sq))

Players == {"White", "Black"}
Other(pl) == IF pl = "White" THEN "Black" ELSE "White"

\* PieceType, in the order of the engine's pt_idx (P 0 .. K 5); "None" is no piece
PieceTypes == {"P", "N", "B", "R", "Q", "K"}

(***************************************************************************)
(* The board: where each side's queen and knight stand (NO_SQ once         *)
(* captured) and who is to move.  Kings never leave e1 / e8.               *)
(***************************************************************************)
StartCfg == [wq |-> d1, wn |-> b1, bq |-> d8, bn |-> b8]

QueenSq(c, pl) == IF pl = "White" THEN c.wq ELSE c.bq
KnightSq(c, pl) == IF pl = "White" THEN c.wn ELSE c.bn
KingSq(pl) == IF pl = "White" THEN e1 ELSE e8

\* the pieces on the board, as <<square, player, piece type>>
Pieces(c) ==
  LET cand == << <<e1, "White", "K">>, <<c.wq, "White", "Q">>, <<c.wn, "White", "N">>,
                 <<e8, "Black", "K">>, <<c.bq, "Black", "Q">>, <<c.bn, "Black", "N">> >>
  IN SelectSeq(cand, LAMBDA p : p[1] # NO_SQ)

\* board.piece_at_sq(sq): <<player, type>>, or <<"None", "None">> on an empty square
piece_at_sq(c, sq) ==
  LET on == SelectSeq(Pieces(c), LAMBDA p : p[1] = sq)
  IN IF Len(on) = 0 THEN <<"None", "None">> ELSE <<on[1][2], on[1][3]>>

(***************************************************************************)
(* Moves.  A BitMove is its source, its destination, its capture flag and  *)
(* its kind (normal, a castle, a promotion to a piece); BitMove::null()    *)
(* has source = destination.                                               *)
(***************************************************************************)
NullMove == [src |-> 0, dest |-> 0, cap |-> FALSE, kind |-> "normal"]
is_null(m) == m.src = m.dest

\* White's edges <<piece type, source, destination, is capture>>, in generation
\* order; Black's are their mirror images
WhiteEdges ==
  << <<"N", b1, a3, FALSE>>, <<"N", a3, b1, FALSE>>, <<"N", a3, c3, FALSE>>, <<"N", c3, a3, FALSE>>,
     <<"N", b1, c3, FALSE>>, <<"N", c3, b1, FALSE>>, <<"N", c3, c6, TRUE>>,
     <<"N", c3, d8, TRUE>>, <<"N", c6, c3, FALSE>>, <<"N", d8, c3, FALSE>>,
     <<"Q", d1, c3, TRUE>>, <<"Q", d1, c6, TRUE>>, <<"Q", c3, d1, FALSE>> >>

Edges(pl) ==
  IF pl = "White" THEN WhiteEdges
  ELSE [i \in 1..Len(WhiteEdges) |->
          <<WhiteEdges[i][1], Mirror(WhiteEdges[i][2]), Mirror(WhiteEdges[i][3]),
            WhiteEdges[i][4]>>]

\* an edge can be played: the piece stands on its source; a quiet edge needs an
\* empty destination, a capture edge an enemy queen or knight on it
EdgePlayable(c, pl, e) ==
  /\ piece_at_sq(c, e[2]) = <<pl, e[1]>>
  /\ IF e[4]
       THEN /\ piece_at_sq(c, e[3])[1] = Other(pl)
            /\ piece_at_sq(c, e[3])[2] # "K"
       ELSE piece_at_sq(c, e[3])[1] = "None"

\* the board after the piece on src went to dest, taking what stood there
MovePieces(c, src, dest) ==
  LET go(sq) == IF sq = dest THEN NO_SQ ELSE IF sq = src THEN dest ELSE sq
  IN [wq |-> go(c.wq), wn |-> go(c.wn), bq |-> go(c.bq), bn |-> go(c.bn)]

\* the enemy queen next to the king: on the own knight's outpost square
CfgInCheck(c, pl) == QueenSq(c, Other(pl)) = (IF pl = "White" THEN c3 ELSE c6)

\* board.generate_moves() / generate_pseudolegal_moves() + legal_move filter
LegalMoves(pos) ==
  LET es == SelectSeq(Edges(pos.turn), LAMBDA e :
              /\ EdgePlayable(pos.c, pos.turn, e)
              /\ ~CfgInCheck(MovePieces(pos.c, e[2], e[3]), pos.turn))
  IN [i \in 1..Len(es) |-> [src |-> es[i][2], dest |-> es[i][3], cap |-> es[i][4],
                          kind |-> "normal"]]

in_check(pos) == CfgInCheck(pos.c, pos.turn)
checkmate(pos) == in_check(pos) /\ Len(LegalMoves(pos)) = 0
stalemate(pos) == ~in_check(pos) /\ Len(LegalMoves(pos)) = 0

is_capture(m) == m.cap
moved_piece(pos, m) == piece_at_sq(pos.c, m.src)[2]
captured_piece(pos, m) == piece_at_sq(pos.c, m.dest)[2]

\* the position after a move, and after a null move (only the turn changes)
AfterMove(pos, m) == [c |-> MovePieces(pos.c, m.src, m.dest), turn |-> Other(pos.turn)]
AfterNull(pos) == [c |-> pos.c, turn |-> Other(pos.turn)]

\* board.zobrist(): a different number for every different position
PlaceCode(sq) ==
  IF sq = NO_SQ THEN 0
  ELSE IF file_idx_of_sq(sq) = 0 THEN 5
  ELSE IF rank_idx_of_sq(sq) = 0 THEN 1
  ELSE IF rank_idx_of_sq(sq) = 2 THEN 2
  ELSE IF rank_idx_of_sq(sq) = 5 THEN 3
  ELSE 4
zobrist(pos) ==
  1 + PlaceCode(pos.c.wq) + 6 * PlaceCode(pos.c.wn) + 36 * PlaceCode(pos.c.bq)
    + 216 * PlaceCode(pos.c.bn) + 1296 * (IF pos.turn = "White" THEN 0 ELSE 1)

(***************************************************************************)
(* Evaluator (engine.rs:178-280).                                          *)
(***************************************************************************)
PSQT_PAWN_MG ==
  << 0, 0, 0, 0, 0, 0, 0, 0,
     50, 50, 50, 50, 50, 50, 50, 50,
     10, 10, 20, 30, 30, 20, 10, 10,
     5, 5, 10, 25, 25, 10, 5, 5,
     0, 0, 0, 20, 20, 0, 0, 0,
     5, -5, -10, 0, 0, -10, -5, 5,
     5, 10, 10, -20, -20, 10, 10, 5,
     0, 0, 0, 0, 0, 0, 0, 0 >>

PSQT_KNIGHT_MG ==
  << -50, -40, -30, -30, -30, -30, -40, -50,
     -40, -20, 0, 5, 5, 0, -20, -40,
     -30, 5, 10, 15, 15, 10, 5, -30,
     -30, 0, 15, 20, 20, 15, 0, -30,
     -30, 5, 15, 20, 20, 15, 5, -30,
     -30, 0, 10, 15, 15, 10, 0, -30,
     -40, -20, 0, 0, 0, 0, -20, -40,
     -50, -40, -30, -30, -30, -30, -40, -50 >>

PSQT_BISHOP_MG ==
  << -20, -10, -10, -10, -10, -10, -10, -20,
     -10, 5, 0, 0, 0, 0, 5, -10,
     -10, 10, 10, 10, 10, 10, 10, -10,
     -10, 0, 10, 10, 10, 10, 0, -10,
     -10, 5, 5, 10, 10, 5, 5, -10,
     -10, 0, 5, 10, 10, 5, 0, -10,
     -10, 0, 0, 0, 0, 0, 0, -10,
     -20, -10, -10, -10, -10, -10, -10, -20 >>

PSQT_ROOK_MG ==
  << 0, 0, 0, 5, 5, 0, 0, 0,
     -5, 0, 0, 0, 0, 0, 0, -5,
     -5, 0, 0, 0, 0, 0, 0, -5,
     -5, 0, 0, 0, 0, 0, 0, -5,
     -5, 0, 0, 0, 0, 0, 0, -5,
     -5, 0, 0, 0, 0, 0, 0, -5,
     5, 10, 10, 10, 10, 10, 10, 5,
     0, 0, 0, 0, 0, 0, 0, 0 >>

PSQT_QUEEN_MG ==
  << -20, -10, -10, -5, -5, -10, -10, -20,
     -10, 0, 5, 0, 0, 0, 0, -10,
     -10, 5, 5, 5, 5, 5, 0, -10,
     0, 0, 5, 5, 5, 5, 0, -5,
     -5, 0, 5, 5, 5, 5, 0, -5,
     -10, 0, 5, 5, 5, 5, 0, -10,
     -10, 0, 0, 0, 0, 0, 0, -10,
     -20, -10, -10, -5, -5, -10, -10, -20 >>

PSQT_KING_MG ==
  << -30, -40, -40, -50, -50, -40, -40, -30,
     -30, -40, -40, -50, -50, -40, -40, -30,
     -30, -40, -40, -50, -50, -40, -40, -30,
     -30, -40, -40, -50, -50, -40, -40, -30,
     -20, -30, -30, -40, -40, -30, -30, -20,
     -10, -20, -20, -20, -20, -20, -20, -10,
     20, 20, 0, 0, 0, 0, 20, 20,
     20, 30, 10, 0, 0, 10, 30, 20 >>

material_value(pt) ==
  CASE pt = "P" -> 100 [] pt = "N" -> 320 [] pt = "B" -> 330
    [] pt = "R" -> 500 [] pt = "Q" -> 900 [] pt = "K" -> 20000 [] OTHER -> 0

\* the tables are indexed from 0 in the source, from 1 here
psqt_value(pt, psqt_index) ==
  CASE pt = "P" -> PSQT_PAWN_MG[psqt_index + 1]
    [] pt = "N" -> PSQT_KNIGHT_MG[psqt_index + 1]
    [] pt = "B" -> PSQT_BISHOP_MG[psqt_index + 1]
    [] pt = "R" -> PSQT_ROOK_MG[psqt_index + 1]
    [] pt = "Q" -> PSQT_QUEEN_MG[psqt_index + 1]
    [] pt = "K" -> PSQT_KING_MG[psqt_index + 1]
    [] OTHER -> 0

\* the signed contribution of one occupied square to the running score
total_value(p) ==
  LET psqt_index == IF p[2] = "White" THEN p[1] ELSE 63 - p[1]
      v == material_value(p[3]) + psqt_value(p[3], psqt_index)
  IN IF p[2] = "White" THEN v ELSE 0 - v

RECURSIVE SumValues(_, _)
SumValues(ps, i) == IF i > Len(ps) THEN 0 ELSE total_value(ps[i]) + SumValues(ps, i + 1)

\* the score before the final negation: larger favours White
WhiteScore(c) == SumValues(Pieces(c), 1)

evaluate_board(pos) ==
  IF pos.turn = "White" THEN WhiteScore(pos.c) ELSE 0 - WhiteScore(pos.c)

(***************************************************************************)
(* Static exchange evaluation, board.see_ge(m, 0): the capture does not    *)
(* lose material once the exchanges on its destination square are played   *)
(* out, each side recapturing with its least valuable attacker when that   *)
(* pays.                                                                   *)
(***************************************************************************)
\* the capture edges of pl into sq that can be played on c, knight before queen
Attackers(c, pl, sq) ==
  SelectSeq(Edges(pl), LAMBDA e : e[4] /\ e[3] = sq /\ EdgePlayable(c, pl, e))

RECURSIVE SeeGain(_, _, _)
SeeGain(c, pl, sq) ==
  LET as == Attackers(c, pl, sq)
  IN IF Len(as) = 0 THEN 0
     ELSE LET won == material_value(piece_at_sq(c, sq)[2]) -
                       SeeGain(MovePieces(c, as[1][2], sq), Other(pl), sq)
          IN IF won > 0 THEN won ELSE 0

see_ge(pos, m, threshold) ==
  material_value(captured_piece(pos, m)) -
    SeeGain(MovePieces(pos.c, m.src, m.dest), Other(pos.turn), m.dest) >= threshold

(***************************************************************************)
(* Transposition table (engine.rs:8-44).  The table maps a hash to at most *)
(* one entry; flag 0 is Exact, 1 LowerBound, 2 UpperBound.                 *)
(***************************************************************************)
TTEntry(score, depth, flag) == [score |-> score, depth |-> depth, flag |-> flag]

\* Option<i32>
None == [some |-> FALSE, val |-> 0]
Some(v) == [some |-> TRUE, val |-> v]

\* CustomTT::new
NewTT == << >>

\* probe with the depth test made strict
probe_strict_depth(table, hash, depth, alpha, beta) ==
  IF hash \in DOMAIN table /\ table[hash].depth > depth /\ table[hash].flag = 0
    THEN Some(table[hash].score)
    ELSE None

\* probe with the two bound tests exchanged
probe_bounds_swapped(table, hash, depth, alpha, beta) ==
  IF hash \in DOMAIN table /\ table[hash].depth >= depth
    THEN CASE table[hash].flag = 0 -> Some(table[hash].score)
           [] table[hash].flag = 1 ->
                IF table[hash].score <= alpha THEN Some(table[hash].score) ELSE None
           [] table[hash].flag = 2 ->
                IF table[hash].score >= beta THEN Some(table[hash].score) ELSE None
           [] OTHER -> None
    ELSE None

\* store with depth-preferred replacement: a deeper entry is kept
store_depth_preferred(table, hash, depth, score, flag) ==
  IF hash \in DOMAIN table /\ table[hash].depth > depth
    THEN table
    ELSE [h \in (DOMAIN table) \cup {hash} |->
            IF h = hash THEN [score |-> score, depth |-> depth, flag |-> flag]
            ELSE table[h]]

\* CustomTT::probe: the value it returns (the table itself is only read)
probe(table, hash, depth, alpha, beta) ==
  IF hash \in DOMAIN table
    THEN LET entry == table[hash]
         IN IF entry.depth >= depth
              THEN CASE entry.flag = 0 -> Some(entry.score)
                     [] entry.flag = 1 ->
                          IF entry.score >= beta THEN Some(entry.score) ELSE None
                     [] entry.flag = 2 ->
                          IF entry.score <= alpha THEN Some(entry.score) ELSE None
                     [] OTHER -> None
              ELSE None
    ELSE None

\* CustomTT::store: HashMap::insert, replacing whatever the hash held
store(table, hash, depth, score, flag) ==
  [h \in (DOMAIN table) \cup {hash} |->
     IF h = hash THEN TTEntry(score, depth, flag) ELSE table[h]]

(***************************************************************************)
(* Move orderer (engine.rs:282-328).  KILLERS and HISTORY are the          *)
(* process-wide arrays; they are kept sparse here: a ply without an entry  *)
(* holds two null moves, a (piece, square) without an entry holds 0.       *)
(***************************************************************************)
pt_idx(pt) ==
  CASE pt = "P" -> 0 [] pt = "N" -> 1 [] pt = "B" -> 2
    [] pt = "R" -> 3 [] pt = "Q" -> 4 [] pt = "K" -> 5 [] OTHER -> 0

Killer(K, ply, slot) == IF ply \in DOMAIN K THEN K[ply][slot + 1] ELSE NullMove
History(H, idx, sq) == IF <<idx, sq>> \in DOMAIN H THEN H[<<idx, sq>>] ELSE 0

score_move(m, pos, K, H) ==
  IF is_capture(m)
    THEN LET mvv == material_value(captured_piece(pos, m))
             lva == material_value(moved_piece(pos, m))
         IN 10000 + mvv * 100 - lva
    ELSE IF m = Killer(K, 0, 0) \/ m = Killer(K, 0, 1)
      THEN 9000
      ELSE History(H, pt_idx(moved_piece(pos, m)), m.dest) + 1000

\* sort_by_key(Reverse(score)): a stable sort, highest score first
RECURSIVE InsertByScore(_, _, _, _, _)
InsertByScore(sorted, m, pos, K, H) ==
  IF sorted = << >> THEN << m >>
  ELSE IF score_move(Head(sorted), pos, K, H) >= score_move(m, pos, K, H)
    THEN << Head(sorted) >> \o InsertByScore(Tail(sorted), m, pos, K, H)
    ELSE << m >> \o sorted

RECURSIVE SortFrom(_, _, _, _, _, _)
SortFrom(moves, i, sorted, pos, K, H) ==
  IF i > Len(moves) THEN sorted
  ELSE SortFrom(moves, i + 1, InsertByScore(sorted, moves[i], pos, K, H), pos, K, H)

order_moves(moves, pos, K, H) == SortFrom(moves, 1, << >>, pos, K, H)

(***************************************************************************)
(* The notation codec (engine.rs:46-175).  A text is a sequence of         *)
(* one-character strings.  The codec only reads the board: what it reads   *)
(* is the side to move and, for every legal move in generation order, the  *)
(* move, the type of the piece it moves, and whether the position after it *)
(* is check and is checkmate (the codec finds the last two out on a clone  *)
(* of the board, lines 130-137).                                           *)
(***************************************************************************)
Cat(s, t) == s \o t

\* lines 46-48
file_char(file_idx) == <<"a", "b", "c", "d", "e", "f", "g", "h">>[file_idx + 1]

\* lines 50-52
rank_char(rank_idx) == <<"1", "2", "3", "4", "5", "6", "7", "8">>[rank_idx + 1]

\* lines 54-64
piece_char(pt) ==
  CASE pt = "P" -> " "
    [] pt = "N" -> "N"
    [] pt = "B" -> "B"
    [] pt = "R" -> "R"
    [] pt = "Q" -> "Q"
    [] pt = "K" -> "K"
    [] OTHER -> "?"

\* char::to_lowercase on the characters a text is made of here
lower_char(ch) ==
  CASE ch = "N" -> "n"
    [] ch = "B" -> "b"
    [] ch = "R" -> "r"
    [] ch = "Q" -> "q"
    [] ch = "K" -> "k"
    [] ch = "O" -> "o"
    [] ch = "Z" -> "z"
    [] OTHER -> ch

\* str::to_lowercase
to_lowercase(s) == [i \in 1..Len(s) |-> lower_char(s[i])]

\* str::trim_end_matches: the longest suffix made of characters of set goes
RECURSIVE trim_end_matches(_, _)
trim_end_matches(s, set) ==
  IF Len(s) > 0 /\ s[Len(s)] \in set
    THEN trim_end_matches(SubSeq(s, 1, Len(s) - 1), set)
    ELSE s

RECURSIVE trim_start_matches(_, _)
trim_start_matches(s, set) ==
  IF Len(s) > 0 /\ s[1] \in set THEN trim_start_matches(Tail(s), set) ELSE s

\* str::trim: white space goes from both ends
trim(s) == trim_end_matches(trim_start_matches(s, {" "}), {" "})

is_king_castle(m) == m.kind = "king_castle"
is_queen_castle(m) == m.kind = "queen_castle"

\* board.generate_moves(): the legal moves, in generation order
generate_moves(cb) == [i \in 1..Len(cb.moves) |-> cb.moves[i].mv]

\* what the board says about the legal move mv
MoveInfo(cb, mv) == cb.moves[CHOOSE i \in 1..Len(cb.moves) : cb.moves[i].mv = mv]

\* the codec's view of a position of the game the search is run on
CodecBoard(pos) ==
  LET moves == LegalMoves(pos)
  IN [turn |-> pos.turn,
      moves |-> [i \in 1..Len(moves) |->
                   [mv |-> moves[i],
                    pt |-> moved_piece(pos, moves[i]),
                    check |-> in_check(AfterMove(pos, moves[i])),
                    mate |-> checkmate(AfterMove(pos, moves[i]))]]]

\* lines 67-141
bitmove_to_san(cb, mv) ==
  IF is_null(mv) THEN << >>
  ELSE
    LET from_sq == mv.src
        to_sq == mv.dest
        moved_pt == MoveInfo(cb, mv).pt
        pc == piece_char(moved_pt)
        san == IF pc # " " THEN <<pc>> ELSE << >>
        moves == cb.moves
        count_same == Cardinality({i \in 1..Len(moves) :
                        /\ moves[i].mv.dest = to_sq
                        /\ moves[i].pt = moved_pt
                        /\ moves[i].mv # mv})
        disamb == IF count_same > 0 THEN <<file_char(file_idx_of_sq(from_sq))>> ELSE << >>
        capture == IF is_capture(mv)
                     THEN Cat(IF moved_pt = "P" THEN <<file_char(file_idx_of_sq(from_sq))>>
                              ELSE << >>, <<"x">>)
                     ELSE << >>
        to_file_idx == file_idx_of_sq(to_sq)
        to_rank_idx == rank_idx_of_sq(to_sq)
        last_rank_idx == IF cb.turn = "White" THEN 7 ELSE 0
        promotion == IF moved_pt = "P" /\ to_rank_idx = last_rank_idx
                       THEN <<"=", "Q">> ELSE << >>
        check == IF MoveInfo(cb, mv).check THEN <<"+">> ELSE << >>
        mate == IF MoveInfo(cb, mv).mate THEN <<"#">> ELSE << >>
    IN IF is_king_castle(mv) THEN <<"O", "-", "O">>
       ELSE IF is_queen_castle(mv) THEN <<"O", "-", "O", "-", "O">>
       ELSE Cat(Cat(Cat(Cat(Cat(Cat(san, disamb), capture),
                            <<file_char(to_file_idx), rank_char(to_rank_idx)>>),
                        promotion), check), mate)

\* Result<BitMove, String>
Ok(mv) == [ok |-> TRUE, mv |-> mv, msg |-> << >>]
Err(msg) == [ok |-> FALSE, mv |-> NullMove, msg |-> msg]

\* the index of the first TRUE in a sequence of truth values, 0 when there is none
FirstWhere(hits) ==
  IF \E i \in 1..Len(hits) : hits[i]
    THEN CHOOSE i \in 1..Len(hits) : hits[i] /\ \A j \in 1..(i - 1) : ~hits[j]
    ELSE 0

\* the text left unstripped
clean_san_unstripped(lowered) == lowered

\* line 145
clean_san(lowered) == trim_end_matches(lowered, {"+", "#"})

\* lines 143-175
san_to_bitmove(cb, san) ==
  LET lowered == to_lowercase(trim(san))
      clean == clean_san(lowered)
      moves == generate_moves(cb)
      king_castle == FirstWhere([i \in 1..Len(moves) |-> is_king_castle(moves[i])])
      queen_castle == FirstWhere([i \in 1..Len(moves) |-> is_queen_castle(moves[i])])
      general == FirstWhere([i \in 1..Len(moves) |->
                               to_lowercase(bitmove_to_san(cb, moves[i])) = clean])
  IN IF clean = <<"o", "-", "o">> /\ king_castle > 0 THEN Ok(moves[king_castle])
     ELSE IF clean = <<"o", "-", "o", "-", "o">> /\ queen_castle > 0
       THEN Ok(moves[queen_castle])
     ELSE IF general > 0 THEN Ok(moves[general])
     ELSE Err(Cat(<<"No matching move for SAN: ">>, san))

(***************************************************************************)
(* Positions of the full game for the codec, given by what the board       *)
(* answers in them.  Each lists all the legal moves of the position.       *)
(***************************************************************************)
Mv(src, dest, cap, kind) == [src |-> src, dest |-> dest, cap |-> cap, kind |-> kind]
Info(mv, pt, check) == [mv |-> mv, pt |-> pt, check |-> check, mate |-> FALSE]

\* White Ke1 Rh1 Ph2, Black Kf8, White to move, White may castle king side
KingCastleBoard ==
  [turn |-> "White",
   moves |-> << Info(Mv(SQ(7, 1), SQ(7, 2), FALSE, "normal"), "P", FALSE),
                Info(Mv(SQ(7, 1), SQ(7, 3), FALSE, "normal"), "P", FALSE),
                Info(Mv(SQ(7, 0), SQ(6, 0), FALSE, "normal"), "R", FALSE),
                Info(Mv(SQ(7, 0), SQ(5, 0), FALSE, "normal"), "R", TRUE),
                Info(Mv(SQ(4, 0), SQ(3, 0), FALSE, "normal"), "K", FALSE),
                Info(Mv(SQ(4, 0), SQ(3, 1), FALSE, "normal"), "K", FALSE),
                Info(Mv(SQ(4, 0), SQ(4, 1), FALSE, "normal"), "K", FALSE),
                Info(Mv(SQ(4, 0), SQ(5, 0), FALSE, "normal"), "K", FALSE),
                Info(Mv(SQ(4, 0), SQ(5, 1), FALSE, "normal"), "K", FALSE),
                Info(Mv(SQ(4, 0), SQ(6, 0), FALSE, "king_castle"), "K", TRUE) >>]

\* Black Ke8 Ra8 Pa7, White Kh1, Black to move, Black may castle queen side
QueenCastleBoard ==
  [turn |-> "Black",
   moves |-> << Info(Mv(SQ(0, 6), SQ(0, 5), FALSE, "normal"), "P", FALSE),
                Info(Mv(SQ(0, 6), SQ(0, 4), FALSE, "normal"), "P", FALSE),
                Info(Mv(SQ(0, 7), SQ(1, 7), FALSE, "normal"), "R", FALSE),
                Info(Mv(SQ(0, 7), SQ(2, 7), FALSE, "normal"), "R", FALSE),
                Info(Mv(SQ(0, 7), SQ(3, 7), FALSE, "normal"), "R", FALSE),
                Info(Mv(SQ(4, 7), SQ(3, 7), FALSE, "normal"), "K", FALSE),
                Info(Mv(SQ(4, 7), SQ(3, 6), FALSE, "normal"), "K", FALSE),
                Info(Mv(SQ(4, 7), SQ(4, 6), FALSE, "normal"), "K", FALSE),
                Info(Mv(SQ(4, 7), SQ(5, 6), FALSE, "normal"), "K", FALSE),
                Info(Mv(SQ(4, 7), SQ(5, 7), FALSE, "normal"), "K", FALSE),
                Info(Mv(SQ(4, 7), SQ(2, 7), FALSE, "queen_castle"), "K", FALSE) >>]

\* White Kh1 Bf1 Pb3 Pg2, Black Ka8 Pc4, White to move: the pawn and the bishop
\* can both take on c4
PawnBishopBoard ==
  [turn |-> "White",
   moves |-> << Info(Mv(SQ(1, 2), SQ(1, 3), FALSE, "normal"), "P", FALSE),
                Info(Mv(SQ(1, 2), SQ(2, 3), TRUE, "normal"), "P", FALSE),
                Info(Mv(SQ(6, 1), SQ(6, 2), FALSE, "normal"), "P", FALSE),
                Info(Mv(SQ(6, 1), SQ(6, 3), FALSE, "normal"), "P", FALSE),
                Info(Mv(SQ(5, 0), SQ(4, 1), FALSE, "normal"), "B", FALSE),
                Info(Mv(SQ(5, 0), SQ(3, 2), FALSE, "normal"), "B", FALSE),
                Info(Mv(SQ(5, 0), SQ(2, 3), TRUE, "normal"), "B", FALSE),
                Info(Mv(SQ(7, 0), SQ(6, 0), FALSE, "normal"), "K", FALSE),
                Info(Mv(SQ(7, 0), SQ(7, 1), FALSE, "normal"), "K", FALSE) >>]

\* White Kh1 Pe7, Black Ka7, White to move: the pawn promotes to any of four pieces
PromotionBoard ==
  [turn |-> "White",
   moves |-> << Info(Mv(SQ(4, 6), SQ(4, 7), FALSE, "promo_Q"), "P", FALSE),
                Info(Mv(SQ(4, 6), SQ(4, 7), FALSE, "promo_R"), "P", FALSE),
                Info(Mv(SQ(4, 6), SQ(4, 7), FALSE, "promo_B"), "P", FALSE),
                Info(Mv(SQ(4, 6), SQ(4, 7), FALSE, "promo_N"), "P", FALSE),
                Info(Mv(SQ(7, 0), SQ(6, 0), FALSE, "normal"), "K", FALSE),
                Info(Mv(SQ(7, 0), SQ(6, 1), FALSE, "normal"), "K", FALSE),
                Info(Mv(SQ(7, 0), SQ(7, 1), FALSE, "normal"), "K", FALSE) >>]

\* White Kh1 Na1 Nc1, Black Kh8, White to move: both knights can go to b3
TwoKnightsBoard ==
  [turn |-> "White",
   moves |-> << Info(Mv(SQ(0, 0), SQ(1, 2), FALSE, "normal"), "N", FALSE),
                Info(Mv(SQ(0, 0), SQ(2, 1), FALSE, "normal"), "N", FALSE),
                Info(Mv(SQ(2, 0), SQ(0, 1), FALSE, "normal"), "N", FALSE),
                Info(Mv(SQ(2, 0), SQ(1, 2), FALSE, "normal"), "N", FALSE),
                Info(Mv(SQ(2, 0), SQ(3, 2), FALSE, "normal"), "N", FALSE),
                Info(Mv(SQ(2, 0), SQ(4, 1), FALSE, "normal"), "N", FALSE),
                Info(Mv(SQ(7, 0), SQ(6, 0), FALSE, "normal"), "K", FALSE),
                Info(Mv(SQ(7, 0), SQ(6, 1), FALSE, "normal"), "K", FALSE),
                Info(Mv(SQ(7, 0), SQ(7, 1), FALSE, "normal"), "K", FALSE) >>]

\* White Kh6 Pg6, Black Kh8, White to move: the pawn's advance gives check
PawnCheckBoard ==
  [turn |-> "White",
   moves |-> << Info(Mv(SQ(6, 5), SQ(6, 6), FALSE, "normal"), "P", TRUE),
                Info(Mv(SQ(7, 5), SQ(6, 4), FALSE, "normal"), "K", FALSE),
                Info(Mv(SQ(7, 5), SQ(7, 4), FALSE, "normal"), "K", FALSE) >>]

FullGameBoards ==
  {KingCastleBoard, QueenCastleBoard, PawnBishopBoard, PromotionBoard, TwoKnightsBoard,
   PawnCheckBoard}

\* the same position with the library generating its moves in the opposite order
Reversed(cb) ==
  [cb EXCEPT !.moves = [i \in 1..Len(cb.moves) |-> cb.moves[Len(cb.moves) + 1 - i]]]

(***************************************************************************)
(* The program state.                                                      *)
(***************************************************************************)
VARIABLES
  board,     \* the Board: the position and the states apply_move pushed
  tt,        \* the CustomTT of the running get_best_move call
  KILLERS,   \* static mut KILLERS
  HISTORY,   \* static mut HISTORY
  stack,     \* the call stack: get_best_move, minimax and quiescence frames
  ret,       \* the i32 the last minimax / quiescence call returned
  result,    \* what get_best_move returned: [done, move]
  max_depth, \* the max_depth get_best_move was called with
  last,      \* observer: the most recent return (function, value, exit path, boards)
  ttlog,     \* observer of the table specification: the calls made so far
  codec,     \* observer of the codec specification: the last call, its board and result
  drv        \* main: where it is, the opening moves left, what it has done so far

vars == <<board, tt, KILLERS, HISTORY, stack, ret, result, max_depth, last, ttlog, codec, drv>>

(***************************************************************************)
(* Board mutation: apply_move / undo_move / apply_null_move /              *)
(* undo_null_move push and pop the position (pleco keeps the previous      *)
(* states in a stack).                                                     *)
(***************************************************************************)
NewBoard(pos) == [pos |-> pos, hist |-> << >>]
apply_move(b, m) == [pos |-> AfterMove(b.pos, m), hist |-> Append(b.hist, b.pos)]
apply_null_move(b) == [pos |-> AfterNull(b.pos), hist |-> Append(b.hist, b.pos)]
undo_move(b) == [pos |-> b.hist[Len(b.hist)], hist |-> SubSeq(b.hist, 1, Len(b.hist) - 1)]
undo_null_move(b) == undo_move(b)
ply(b) == Len(b.hist)
start_pos == NewBoard([c |-> StartCfg, turn |-> "White"])

\* the boards reached from the start position by at most n legal moves
RECURSIVE BoardsWithin(_)
BoardsWithin(n) ==
  IF n = 0 THEN {start_pos}
  ELSE LET prev == BoardsWithin(n - 1)
       IN prev \cup {apply_move(b, LegalMoves(b.pos)[i]) :
                       <<b, i>> \in {x \in prev \X (1..9) : x[2] <= Len(LegalMoves(x[1].pos))}}

(***************************************************************************)
(* Call frames.  pc is the place the call will continue from.  alpha and   *)
(* beta are the function's (mutable) locals, alpha0 and beta0 the values   *)
(* passed in, entry the board as it was when the call was made.            *)
(***************************************************************************)
Frame(fn, depth, alpha, beta, maximizing, b) ==
  [fn |-> fn, pc |-> "start", depth |-> depth, alpha |-> alpha, beta |-> beta,
   alpha0 |-> alpha, beta0 |-> beta, maximizing |-> maximizing,
   moves |-> << >>, moves_vec |-> << >>, score |-> 0, flag |-> 0,
   m |-> NullMove, best_move |-> NullMove, current_best |-> NullMove,
   stand_pat |-> 0, entry |-> b,
   \* observers: the moves the call has applied so far; at the root, the
   \* <<move, value>> pairs of the running iteration and the move each finished
   \* iteration chose
   tried |-> << >>, vals |-> << >>, picks |-> << >>]

Top == stack[Len(stack)]
Running(fn, pc) == Len(stack) > 0 /\ Top.fn = fn /\ Top.pc = pc
Below == SubSeq(stack, 1, Len(stack) - 1)

NoEntry == [score |-> 0, depth |-> 0, flag |-> 255]

NoReturn ==
  [fn |-> "none", val |-> 0, move |-> NullMove, via |-> "none", alpha |-> 0, beta |-> 0,
   depth |-> 0, entry |-> start_pos, board |-> start_pos,
   frame |-> Frame("none", 0, 0, 0, FALSE, start_pos), tt_entry |-> NoEntry]

\* the call on top of the stack returns val (or, from get_best_move, move)
Return(val, move, via) ==
  /\ stack' = Below
  /\ last' = [fn |-> Top.fn, val |-> val, move |-> move, via |-> via,
              alpha |-> Top.alpha0, beta |-> Top.beta0, depth |-> Top.depth,
              entry |-> Top.entry, board |-> board', frame |-> Top,
              tt_entry |-> IF zobrist(Top.entry.pos) \in DOMAIN tt'
                             THEN tt'[zobrist(Top.entry.pos)] ELSE NoEntry]
  /\ IF Top.fn = "get_best_move"
       THEN result' = [done |-> TRUE, move |-> move] /\ ret' = ret
       ELSE ret' = val /\ result' = result

\* the call on top of the stack moves on to pc with its locals changed
Continue(f) == stack' = Append(Below, f) /\ UNCHANGED <<ret, result, last>>

\* the call on top of the stack calls another function
Call(f, callee) == stack' = Append(Append(Below, f), callee) /\ UNCHANGED <<ret, result, last>>

Max(a, b) == IF a >= b THEN a ELSE b
Min(a, b) == IF a <= b THEN a ELSE b

(***************************************************************************)
(* get_best_move (engine.rs:330-370).                                      *)
(***************************************************************************)
\* a root move replacing the running best also when it only equals it
RootImproves_on_ties(maximizing, value, current_value) ==
  (maximizing /\ value >= current_value) \/ (~maximizing /\ value <= current_value)

\* line 356: the strict comparison that lets a root move replace the running best
RootImproves(maximizing, value, current_value) ==
  (maximizing /\ value > current_value) \/ (~maximizing /\ value < current_value)

\* the break taken after best_move has been overwritten by the iteration's choice
BestAtBreak_overwritten(best_move, current_best) == current_best

\* lines 362-364 and 369: an iteration that chose no move breaks out of the loop
\* before line 366 assigns, so the move of the iteration before it is returned
BestAtBreak(best_move, current_best) == best_move

\* the table of the call before handed on to the next call
table_kept(previous) == previous

\* line 331: the call's table is a new, empty one whatever the one before held
table_at_call(previous) == NewTT

\* lines 331-342: the table is created, the root moves are generated once
GbmStart ==
  /\ Running("get_best_move", "start")
  /\ tt' = table_at_call(tt)
  /\ UNCHANGED <<board, KILLERS, HISTORY, max_depth, ttlog, codec, drv>>
  /\ LET moves == LegalMoves(board.pos)
     IN IF Len(moves) = 0
          THEN Return(0, NullMove, "no_moves")
          ELSE Continue([Top EXCEPT !.pc = "iter", !.depth = 1, !.moves = moves,
                                    !.maximizing = (board.pos.turn = "White"),
                                    !.best_move = NullMove])

\* lines 344-349: the head of one iteration of `for d in 1..=max_depth`
GbmIter ==
  /\ Running("get_best_move", "iter")
  /\ UNCHANGED <<board, tt, KILLERS, HISTORY, max_depth, ttlog, codec, drv>>
  /\ IF Top.depth > max_depth
       THEN Return(0, Top.best_move, "depth_limit")
       ELSE Continue([Top EXCEPT !.pc = "loop", !.current_best = NullMove, !.vals = << >>,
                        !.score = IF Top.maximizing THEN 0 - INFINITY ELSE INFINITY,
                        !.moves_vec = order_moves(Top.moves, board.pos, KILLERS, HISTORY)])

\* lines 351-353 and 362-366: the next root move is applied and searched, or the
\* iteration ends
GbmLoop ==
  /\ Running("get_best_move", "loop")
  /\ UNCHANGED <<tt, KILLERS, HISTORY, max_depth, ttlog, codec, drv>>
  /\ IF Top.moves_vec = << >>
       THEN /\ board' = board
            /\ IF is_null(Top.current_best)
                 THEN Return(0, BestAtBreak(Top.best_move, Top.current_best), "break")
                 ELSE Continue([Top EXCEPT !.pc = "iter", !.depth = Top.depth + 1,
                                           !.best_move = Top.current_best,
                                           !.picks = Append(Top.picks, Top.current_best)])
       ELSE LET m == Head(Top.moves_vec)
            IN /\ board' = apply_move(board, m)
               /\ Call([Top EXCEPT !.pc = "ret", !.m = m, !.moves_vec = Tail(Top.moves_vec),
                                   !.tried = Append(Top.tried, m)],
                       Frame("minimax", Top.depth - 1, 0 - INFINITY, INFINITY,
                             ~Top.maximizing, board'))

\* lines 354-359: the root move is undone and compared with the running best
GbmRet ==
  /\ Running("get_best_move", "ret")
  /\ board' = undo_move(board)
  /\ UNCHANGED <<tt, KILLERS, HISTORY, max_depth, ttlog, codec, drv>>
  /\ IF RootImproves(Top.maximizing, ret, Top.score)
       THEN Continue([Top EXCEPT !.pc = "loop", !.score = ret, !.current_best = Top.m,
                                 !.vals = Append(Top.vals, <<Top.m, ret>>)])
       ELSE Continue([Top EXCEPT !.pc = "loop", !.vals = Append(Top.vals, <<Top.m, ret>>)])

(***************************************************************************)
(* minimax (engine.rs:372-485).                                            *)
(***************************************************************************)
\* the null move tried without asking whether the side to move is in check
NullMoveAllowed_in_check(depth, maximizing, alpha, beta, pos) ==
  depth >= 3 /\ ~maximizing /\ alpha < beta

\* line 396: the condition under which a null move is tried
NullMoveAllowed(depth, maximizing, alpha, beta, pos) ==
  depth >= 3 /\ ~maximizing /\ alpha < beta /\ ~in_check(pos)

\* lines 427-432 / 460-465: the killer slots of a ply after a cutoff by m
KillersAfter(K, p, m) ==
  LET k0 == Killer(K, p, 0)
      k1 == Killer(K, p, 1)
      slots == IF is_null(k0) THEN <<m, k1>>
               ELSE IF is_null(k1) THEN <<k0, m>> ELSE <<k0, k1>>
  IN [q \in (DOMAIN K) \cup {p} |-> IF q = p THEN slots ELSE K[q]]

\* lines 433-443 / 466-476: the history table after a cutoff at depth
HistoryAfter(H, moved_pt, m, depth) ==
  LET key == <<pt_idx(moved_pt), m.dest>>
  IN [k \in (DOMAIN H) \cup {key} |->
        IF k = key THEN History(H, key[1], key[2]) + depth * depth ELSE H[k]]

\* lines 406-411: the legal moves, ordered
MmExpand(f, pos) ==
  [f EXCEPT !.pc = "loop", !.flag = 0,
            !.score = IF f.maximizing THEN 0 - INFINITY ELSE INFINITY,
            !.moves_vec = order_moves(LegalMoves(pos), pos, KILLERS, HISTORY)]

\* lines 373-411: probe, terminal positions, the depth-0 leaf, the null move
MmStart ==
  /\ Running("minimax", "start")
  /\ UNCHANGED <<KILLERS, HISTORY, max_depth, ttlog, codec, drv>>
  /\ LET f == Top
         pos == board.pos
         hash == zobrist(pos)
         hit == probe(tt, hash, f.depth, f.alpha, f.beta)
     IN IF hit.some
          THEN /\ UNCHANGED <<board, tt>>
               /\ Return(hit.val, NullMove, "tt_hit")
        ELSE IF checkmate(pos)
          THEN LET score == IF pos.turn = "White" THEN 0 - INFINITY ELSE INFINITY
               IN /\ tt' = store(tt, hash, f.depth, score, 0)
                  /\ board' = board
                  /\ Return(score, NullMove, "checkmate")
        ELSE IF stalemate(pos)
          THEN /\ tt' = store(tt, hash, f.depth, 0, 0)
               /\ board' = board
               /\ Return(0, NullMove, "stalemate")
        ELSE IF f.depth = 0
          THEN /\ UNCHANGED <<board, tt>>
               /\ Call([f EXCEPT !.pc = "q_ret"],
                       Frame("quiescence", 0, f.alpha, f.beta, FALSE, board))
        ELSE IF NullMoveAllowed(f.depth, f.maximizing, f.alpha, f.beta, pos)
          THEN /\ board' = apply_null_move(board)
               /\ tt' = tt
               /\ Call([f EXCEPT !.pc = "null_ret"],
                       Frame("minimax", f.depth - 3, 0 - f.beta, 0 - f.alpha, TRUE, board'))
        ELSE /\ UNCHANGED <<board, tt>>
             /\ Continue(MmExpand(f, pos))

\* lines 390-392: the leaf's score is stored at depth 0 as Exact
MmQRet ==
  /\ Running("minimax", "q_ret")
  /\ tt' = store(tt, zobrist(Top.entry.pos), 0, ret, 0)
  /\ UNCHANGED <<board, KILLERS, HISTORY, max_depth, ttlog, codec, drv>>
  /\ Return(ret, NullMove, "depth0")

\* lines 398-404: the null move is undone; a result >= beta is stored and returned
MmNullRet ==
  /\ Running("minimax", "null_ret")
  /\ board' = undo_null_move(board)
  /\ UNCHANGED <<KILLERS, HISTORY, max_depth, ttlog, codec, drv>>
  /\ LET null_score == 0 - ret
     IN IF null_score >= Top.beta
          THEN /\ tt' = store(tt, zobrist(Top.entry.pos), Top.depth, null_score, 2)
               /\ Return(null_score, NullMove, "null_cutoff")
          ELSE /\ tt' = tt
               /\ Continue(MmExpand(Top, board'.pos))

\* lines 417-420 / 450-453 and 483-484: the next move is applied and searched, or
\* the node's score is stored and returned
MmLoop ==
  /\ Running("minimax", "loop")
  /\ UNCHANGED <<KILLERS, HISTORY, max_depth, ttlog, codec, drv>>
  /\ IF Top.moves_vec = << >>
       THEN /\ tt' = store(tt, zobrist(Top.entry.pos), Top.depth, Top.score, Top.flag)
            /\ board' = board
            /\ Return(Top.score, NullMove, "complete")
       ELSE LET m == Head(Top.moves_vec)
            IN /\ board' = apply_move(board, m)
               /\ tt' = tt
               /\ Call([Top EXCEPT !.pc = "child_ret", !.m = m,
                                   !.moves_vec = Tail(Top.moves_vec),
                                   !.tried = Append(Top.tried, m)],
                       Frame("minimax", Top.depth - 1, Top.alpha, Top.beta,
                             ~Top.maximizing, board'))

\* the killer table indexed by the ply itself
killer_ply_unreduced(b) == ply(b)

\* lines 427 / 460: the killer table's index for the node on the board
killer_ply(b) == ply(b) % MAX_PLY

\* the loop left only when beta is strictly below alpha
cutoff_strict(alpha, beta) == beta < alpha

\* lines 424 / 457: the test that leaves the loop
cutoff(alpha, beta) == beta <= alpha

\* lines 421-446 / 454-479 and 483-484: the move is undone, the window updated;
\* on beta <= alpha the killer and history tables are written, the loop is left
\* and the node's score is stored with the cutoff's flag
MmChildRet ==
  /\ Running("minimax", "child_ret")
  /\ board' = undo_move(board)
  /\ UNCHANGED <<max_depth, ttlog, codec, drv>>
  /\ LET f == Top
         eval == ret
         score == IF f.maximizing THEN Max(f.score, eval) ELSE Min(f.score, eval)
         alpha == IF f.maximizing THEN Max(f.alpha, eval) ELSE f.alpha
         beta == IF f.maximizing THEN f.beta ELSE Min(f.beta, eval)
         flag == IF f.maximizing THEN 1 ELSE 2
         moved_pt == moved_piece(board'.pos, f.m)
     IN IF cutoff(alpha, beta)
          THEN /\ KILLERS' = KillersAfter(KILLERS, killer_ply(board'), f.m)
               /\ HISTORY' = HistoryAfter(HISTORY, moved_pt, f.m, f.depth)
               /\ tt' = store(tt, zobrist(Top.entry.pos), f.depth, score, flag)
               /\ Return(score, NullMove, "beta_cutoff")
          ELSE /\ UNCHANGED <<KILLERS, HISTORY, tt>>
               /\ Continue([f EXCEPT !.pc = "loop", !.score = score,
                                     !.alpha = alpha, !.beta = beta])

(***************************************************************************)
(* quiescence (engine.rs:487-526).                                         *)
(***************************************************************************)
\* lines 501-507: the legal captures, ordered
Captures(pos) ==
  order_moves(SelectSeq(LegalMoves(pos), LAMBDA m : is_capture(m)), pos, KILLERS, HISTORY)

\* the capture left on the board when its result cuts the search off
QsUndo_skipped_on_cutoff(b, eval, beta) == IF eval >= beta THEN b ELSE undo_move(b)

\* line 514: the capture is undone before its result is looked at
QsUndo(b, eval, beta) == undo_move(b)

\* lines 488-509: probe, stand pat
QsStart ==
  /\ Running("quiescence", "start")
  /\ UNCHANGED <<board, tt, KILLERS, HISTORY, max_depth, ttlog, codec, drv>>
  /\ LET f == Top
         hit == probe(tt, zobrist(board.pos), 0, f.alpha, f.beta)
         stand_pat == evaluate_board(board.pos)
     IN IF hit.some
          THEN Return(hit.val, NullMove, "tt_hit")
        ELSE IF stand_pat >= f.beta
          THEN Return(f.beta, NullMove, "stand_pat")
        ELSE Continue([f EXCEPT !.pc = "loop", !.stand_pat = stand_pat,
                         !.alpha = Max(f.alpha, stand_pat), !.score = stand_pat,
                         !.moves_vec = Captures(board.pos)])

\* lines 510-513 and 524-525: a capture that loses material is skipped; the next
\* one is applied and searched; with none left alpha is stored and returned
QsLoop ==
  /\ Running("quiescence", "loop")
  /\ UNCHANGED <<KILLERS, HISTORY, max_depth, ttlog, codec, drv>>
  /\ IF Top.moves_vec = << >>
       THEN /\ tt' = store(tt, zobrist(Top.entry.pos), 0, Top.alpha, 0)
            /\ board' = board
            /\ Return(Top.alpha, NullMove, "complete")
       ELSE LET m == Head(Top.moves_vec)
            IN IF ~see_ge(board.pos, m, 0)
                 THEN /\ UNCHANGED <<board, tt>>
                      /\ Continue([Top EXCEPT !.moves_vec = Tail(Top.moves_vec)])
                 ELSE /\ board' = apply_move(board, m)
                      /\ tt' = tt
                      /\ Call([Top EXCEPT !.pc = "child_ret", !.m = m,
                                          !.moves_vec = Tail(Top.moves_vec),
                                          !.tried = Append(Top.tried, m)],
                              Frame("quiescence", 0, 0 - Top.beta, 0 - Top.alpha,
                                    FALSE, board'))

\* lines 513-523: the capture is undone; a result >= beta is a cutoff
QsChildRet ==
  /\ Running("quiescence", "child_ret")
  /\ UNCHANGED <<KILLERS, HISTORY, max_depth, ttlog, codec, drv>>
  /\ LET f == Top
         eval == 0 - ret
     IN /\ board' = QsUndo(board, eval, f.beta)
        /\ IF eval >= f.beta
             THEN /\ tt' = store(tt, zobrist(Top.entry.pos), 0, f.beta, 2)
                  /\ Return(f.beta, NullMove, "beta_cutoff")
             ELSE /\ tt' = tt
                  /\ Continue([f EXCEPT !.pc = "loop", !.alpha = Max(f.alpha, eval),
                                        !.score = Max(f.score, eval)])

\* codec and drv while no codec call has been made and main is not running
CodecIdle ==
  [op |-> "none", board |-> [turn |-> "White", moves |-> << >>], mv |-> NullMove,
   text |-> << >>, res |-> [ok |-> FALSE, mv |-> NullMove, msg |-> << >>],
   after |-> [turn |-> "White", moves |-> << >>]]

DrvIdle ==
  [pc |-> "none", moves |-> << >>, calls |-> 0, applied |-> 0, null_returned |-> FALSE,
   after_opening |-> start_pos.pos, report |-> "none",
   \* observer: the whole list of opening moves main was given
   opening |-> << >>,
   \* the move the first of two calls on one board returned
   first |-> NullMove]

(***************************************************************************)
(* The search specification: one get_best_move call on a board reached     *)
(* from the start position, with the killer and history tables as they are *)
(* when the process starts.                                                *)
(***************************************************************************)
RootBoards == BoardsWithin(MaxRootPly)

Init ==
  /\ board \in RootBoards
  /\ max_depth \in 1..MaxSearchDepth
  /\ ply(board) + max_depth <= MaxRootPly + 2
  /\ tt = NewTT
  /\ KILLERS = << >>
  /\ HISTORY = << >>
  /\ stack = << Frame("get_best_move", 0, 0, 0, FALSE, board) >>
  /\ ret = 0
  /\ result = [done |-> FALSE, move |-> NullMove]
  /\ last = NoReturn
  /\ ttlog = << >>
  /\ codec = CodecIdle
  /\ drv = DrvIdle

Next ==
  \/ GbmStart \/ GbmIter \/ GbmLoop \/ GbmRet
  \/ MmStart \/ MmQRet \/ MmNullRet \/ MmLoop \/ MmChildRet
  \/ QsStart \/ QsLoop \/ QsChildRet

Spec == Init /\ [][Next]_vars

(***************************************************************************)
(* The table specification: CustomTT::store and CustomTT::probe called in  *)
(* any order on one table, with hashes, depths, scores, flags and windows  *)
(* drawn from small sets.  ttlog remembers the last call and, per hash,    *)
(* the arguments of the last store made to it.                             *)
(***************************************************************************)
TTHashes == {zobrist(start_pos.pos), zobrist(AfterNull(start_pos.pos))}
TTDepths == 0..MaxTTDepth
TTScores == {-50, 50}
TTFlags == 0..3
TTBounds == {-100, 0, 100}

InitTT ==
  /\ tt = NewTT
  /\ ttlog = [op |-> "new", hash |-> 0, depth |-> 0, alpha |-> 0, beta |-> 0,
              res |-> None, before |-> NewTT, stored |-> << >>]
  /\ board = start_pos
  /\ max_depth = 0
  /\ KILLERS = << >>
  /\ HISTORY = << >>
  /\ stack = << >>
  /\ ret = 0
  /\ result = [done |-> FALSE, move |-> NullMove]
  /\ last = NoReturn
  /\ codec = CodecIdle
  /\ drv = DrvIdle

TTStore ==
  \E hash \in TTHashes, depth \in TTDepths, score \in TTScores, flag \in TTFlags :
    /\ tt' = store(tt, hash, depth, score, flag)
    /\ ttlog' = [op |-> "store", hash |-> hash, depth |-> depth, alpha |-> 0, beta |-> 0,
                 res |-> None, before |-> tt,
                 stored |-> [h \in (DOMAIN ttlog.stored) \cup {hash} |->
                               IF h = hash THEN <<score, depth, flag>>
                               ELSE ttlog.stored[h]]]
    /\ UNCHANGED <<board, KILLERS, HISTORY, stack, ret, result, max_depth, last, codec, drv>>

TTProbe ==
  \E hash \in TTHashes, depth \in TTDepths, alpha \in TTBounds, beta \in TTBounds :
    /\ alpha <= beta
    /\ tt' = tt
    /\ ttlog' = [ttlog EXCEPT !.op = "probe", !.hash = hash, !.depth = depth,
                              !.alpha = alpha, !.beta = beta, !.before = tt,
                              !.res = probe(tt, hash, depth, alpha, beta)]
    /\ UNCHANGED <<board, KILLERS, HISTORY, stack, ret, result, max_depth, last, codec, drv>>

NextTT == TTStore \/ TTProbe

SpecTT == InitTT /\ [][NextTT]_vars

(***************************************************************************)
(* The codec specification: bitmove_to_san and san_to_bitmove called on a  *)
(* position, with every legal move and with texts made from the moves'     *)
(* encodings and from texts that encode nothing.  codec remembers the last *)
(* call.                                                                   *)
(***************************************************************************)
CodecBoards ==
  {CodecBoard(b.pos) : b \in BoardsWithin(MaxRootPly)}
    \cup FullGameBoards \cup {Reversed(cb) : cb \in FullGameBoards}

\* the texts a caller may hand to san_to_bitmove for an encoding t
Variants(t) ==
  {t, to_lowercase(t), Cat(Cat(<<" ">>, t), <<" ">>), Cat(t, <<"+">>), Cat(t, <<"#">>),
   trim_end_matches(t, {"+", "#"})}

Junk ==
  {<< >>, <<" ">>, <<"O", "-", "O">>, <<"o", "-", "o">>, <<"O", "-", "O", "-", "O">>,
   <<"O", "-", "O", "+">>, <<"Z", "9">>}

Texts(cb) ==
  UNION {Variants(bitmove_to_san(cb, cb.moves[i].mv)) : i \in 1..Len(cb.moves)} \cup Junk

InitCodec ==
  /\ codec \in {[CodecIdle EXCEPT !.board = cb, !.after = cb] : cb \in CodecBoards}
  /\ drv = DrvIdle
  /\ board = start_pos
  /\ tt = NewTT
  /\ KILLERS = << >>
  /\ HISTORY = << >>
  /\ stack = << >>
  /\ ret = 0
  /\ result = [done |-> FALSE, move |-> NullMove]
  /\ max_depth = 0
  /\ last = NoReturn
  /\ ttlog = << >>

NotCodec == <<board, tt, KILLERS, HISTORY, stack, ret, result, max_depth, last, ttlog, drv>>

\* bitmove_to_san(&board, mv) for a legal move
Encode ==
  \E i \in 1..Len(codec.board.moves) :
    /\ codec' = [codec EXCEPT !.op = "encode", !.mv = codec.board.moves[i].mv,
                              !.text = bitmove_to_san(codec.board, codec.board.moves[i].mv),
                              !.res = Err(<< >>), !.after = codec.board]
    /\ UNCHANGED NotCodec

\* san_to_bitmove(&board, san) for a text
Decode ==
  \E san \in Texts(codec.board) :
    /\ codec' = [codec EXCEPT !.op = "decode", !.mv = NullMove, !.text = san,
                              !.res = san_to_bitmove(codec.board, san),
                              !.after = codec.board]
    /\ UNCHANGED NotCodec

\* san_to_bitmove(&board, &bitmove_to_san(&board, mv)): the text just encoded is decoded
RoundTrip ==
  /\ codec.op = "encode"
  /\ codec' = [codec EXCEPT !.op = "roundtrip",
                            !.res = san_to_bitmove(codec.board, codec.text),
                            !.after = codec.board]
  /\ UNCHANGED NotCodec

NextCodec == Encode \/ Decode \/ RoundTrip

SpecCodec == InitCodec /\ [][NextCodec]_vars

(***************************************************************************)
(* The driver specification: main (main.rs:57-112) replays an opening and  *)
(* then plays the game out with get_best_move(&mut board, MAX_DEPTH).      *)
(***************************************************************************)
\* opening lines as they come out of parse_csv_line: lists of texts
\* a game of MAX_PLY - 2 knight moves that ends where it began but for the
\* knights on a3 and a6, so that the search's nodes lie on both sides of MAX_PLY
LongOpening ==
  [i \in 1..(MAX_PLY - 2) |->
     CASE i % 4 = 1 -> <<"N", "a", "3">> [] i % 4 = 2 -> <<"N", "a", "6">>
       [] i % 4 = 3 -> <<"N", "b", "1">> [] OTHER -> <<"N", "b", "8">>]

Openings ==
  { << >>, LongOpening,
    << <<"N", "c", "3">> >>,
    << <<"N", "a", "3">>, <<"N", "a", "6">>, <<"N", "c", "3">> >>,
    << <<"N", "c", "3">>, <<"N", "c", "6">>, <<"N", "x", "d", "8">>, <<"N", "x", "d", "1">>,
       <<"N", "c", "3">>, <<"N", "c", "6">>, <<"N", "x", "c", "6">> >>,
    << <<"N", "c", "3">>, <<"Q", "x", "c", "3", "+">>, <<"N", "c", "6">> >>,
    << <<"e", "4">>, <<"e", "5">> >> }

\* line 53-55
parse_san(b, san) == san_to_bitmove(CodecBoard(b.pos), san)

\* the loop entered although the side to move is stalemated
LoopRuns_ignoring_stalemate(pos) == ~checkmate(pos)

\* line 93: the loop condition
LoopRuns(pos) == ~checkmate(pos) /\ ~stalemate(pos)

InitMain ==
  /\ board = start_pos
  /\ drv \in {[DrvIdle EXCEPT !.pc = "opening", !.moves = o, !.opening = o] : o \in Openings}
  /\ codec = CodecIdle
  /\ tt = NewTT
  /\ KILLERS = << >>
  /\ HISTORY = << >>
  /\ stack = << >>
  /\ ret = 0
  /\ result = [done |-> FALSE, move |-> NullMove]
  /\ max_depth = MAX_DEPTH
  /\ last = NoReturn
  /\ ttlog = << >>

NotMain == <<tt, KILLERS, HISTORY, ret, max_depth, last, ttlog, codec>>

\* the text that failed to parse skipped and the replay carried on after it
after_error_skipping(d, pos) == [d EXCEPT !.moves = Tail(d.moves)]

\* lines 83-86 and 89: the first text that fails to parse ends the replay
after_error(d, pos) == [d EXCEPT !.pc = "loop", !.after_opening = pos]

\* lines 78-90: the next opening move is parsed and applied; the replay ends with
\* the list or at the first text that does not parse
MainOpening ==
  /\ drv.pc = "opening"
  /\ UNCHANGED NotMain
  /\ UNCHANGED <<stack, result>>
  /\ IF drv.moves = << >>
       THEN /\ board' = board
            /\ drv' = [drv EXCEPT !.pc = "loop", !.after_opening = board.pos]
       ELSE LET r == parse_san(board, Head(drv.moves))
            IN IF r.ok
                 THEN /\ board' = apply_move(board, r.mv)
                      /\ drv' = [drv EXCEPT !.moves = Tail(drv.moves)]
                 ELSE /\ board' = board
                      /\ drv' = after_error(drv, board.pos)

\* lines 93-94: the loop condition, then the call of get_best_move
MainLoop ==
  /\ drv.pc = "loop"
  /\ UNCHANGED NotMain
  /\ board' = board
  /\ IF LoopRuns(board.pos)
       THEN /\ drv.calls < MaxGameMoves
            /\ stack' = << Frame("get_best_move", 0, 0, 0, FALSE, board) >>
            /\ result' = [done |-> FALSE, move |-> NullMove]
            /\ drv' = [drv EXCEPT !.pc = "search", !.calls = drv.calls + 1]
       ELSE /\ drv' = [drv EXCEPT !.pc = "report"]
            /\ UNCHANGED <<stack, result>>

\* lines 95-100: a null best move ends the loop, any other is applied
MainBestMove ==
  /\ drv.pc = "search"
  /\ result.done
  /\ stack = << >>
  /\ UNCHANGED NotMain
  /\ UNCHANGED <<stack, result>>
  /\ IF is_null(result.move)
       THEN /\ board' = board
            /\ drv' = [drv EXCEPT !.pc = "report", !.null_returned = TRUE]
       ELSE /\ board' = apply_move(board, result.move)
            /\ drv' = [drv EXCEPT !.pc = "loop", !.applied = drv.applied + 1]

\* lines 103-110
MainReport ==
  /\ drv.pc = "report"
  /\ UNCHANGED NotMain
  /\ UNCHANGED <<board, stack, result>>
  /\ drv' = [drv EXCEPT !.pc = "done",
               !.report = IF checkmate(board.pos)
                            THEN (IF board.pos.turn = "White" THEN "Black wins"
                                  ELSE "White wins")
                          ELSE IF stalemate(board.pos) THEN "draw"
                          ELSE "ended"]

NextMain == MainOpening \/ MainLoop \/ MainBestMove \/ MainReport \/ Next

SpecMain == InitMain /\ [][NextMain]_vars

(***************************************************************************)
(* The repeated call: get_best_move is called on a board and, once it has  *)
(* returned, called again on the same board with the same max_depth.  The  *)
(* second call gets a new table (line 331) but finds KILLERS and HISTORY   *)
(* (lines 282-283, process-wide statics) as the first call left them.      *)
(***************************************************************************)
InitRepeat ==
  /\ board \in RootBoards
  /\ max_depth \in 1..MAX_DEPTH
  /\ ply(board) + max_depth <= MaxRootPly + 2
  /\ tt = NewTT
  /\ KILLERS = << >>
  /\ HISTORY = << >>
  /\ stack = << Frame("get_best_move", 0, 0, 0, FALSE, board) >>
  /\ ret = 0
  /\ result = [done |-> FALSE, move |-> NullMove]
  /\ last = NoReturn
  /\ ttlog = << >>
  /\ codec = CodecIdle
  /\ drv = [DrvIdle EXCEPT !.pc = "first", !.calls = 1]

\* the first call has returned; its move is noted and the second call is made
CallAgain ==
  /\ drv.pc = "first"
  /\ result.done
  /\ stack = << >>
  /\ stack' = << Frame("get_best_move", 0, 0, 0, FALSE, board) >>
  /\ result' = [done |-> FALSE, move |-> NullMove]
  /\ drv' = [drv EXCEPT !.pc = "second", !.calls = 2, !.first = result.move]
  /\ UNCHANGED <<board, tt, KILLERS, HISTORY, ret, max_depth, last, ttlog, codec>>

NextRepeat == CallAgain \/ Next

SpecRepeat == InitRepeat /\ [][NextRepeat]_vars

(***************************************************************************)
(* Claims about the transposition table.                                   *)
(***************************************************************************)
\* C1: a probe of hash h at depth d', made when the last store to h was
\* store(h, d, s, Exact) with d' <= d, returns s, whatever the window.
C1_ProbeAfterExactStore ==
  (/\ ttlog.op = "probe"
   /\ ttlog.hash \in DOMAIN ttlog.stored
   /\ ttlog.stored[ttlog.hash][3] = 0
   /\ ttlog.depth <= ttlog.stored[ttlog.hash][2])
  => ttlog.res = Some(ttlog.stored[ttlog.hash][1])

\* a probe at exactly the stored depth of an Exact entry, with a window the score
\* lies outside of
C1_Witness ==
  /\ ttlog.op = "probe"
  /\ ttlog.hash \in DOMAIN ttlog.stored
  /\ ttlog.stored[ttlog.hash] = <<50, ttlog.depth, 0>>
  /\ ttlog.beta < 50
  /\ ttlog.depth > 0
  /\ ttlog.res = Some(50)

\* C2: probe returns the stored score exactly when the hash has an entry of
\* depth >= the requested depth whose bound is Exact, or LowerBound with
\* score >= beta, or UpperBound with score <= alpha; otherwise it returns
\* nothing; and the table is the same after the probe as before it.
C2_ProbeUsableExactly ==
  ttlog.op = "probe" =>
    LET h == ttlog.hash
        usable == /\ h \in DOMAIN ttlog.before
                  /\ ttlog.before[h].depth >= ttlog.depth
                  /\ \/ ttlog.before[h].flag = 0
                     \/ ttlog.before[h].flag = 1 /\ ttlog.before[h].score >= ttlog.beta
                     \/ ttlog.before[h].flag = 2 /\ ttlog.before[h].score <= ttlog.alpha
    IN /\ usable => ttlog.res = Some(ttlog.before[h].score)
       /\ ~usable => ttlog.res = None
       /\ tt = ttlog.before

\* a LowerBound entry that is deep enough is refused because its score is below beta
C2_Witness ==
  /\ ttlog.op = "probe"
  /\ ttlog.hash \in DOMAIN tt
  /\ tt[ttlog.hash].flag = 1
  /\ tt[ttlog.hash].depth >= ttlog.depth
  /\ tt[ttlog.hash].score < ttlog.beta
  /\ tt[ttlog.hash].score <= ttlog.alpha
  /\ ttlog.res = None

\* C3: the table holds an entry for exactly the hashes stored to, and each
\* entry is the (score, depth, flag) of the last store to its hash, also when
\* that store was shallower than the entry it replaced.
C3_NewestStoreWins ==
  /\ DOMAIN tt = DOMAIN ttlog.stored
  /\ \A h \in DOMAIN tt :
       tt[h] = TTEntry(ttlog.stored[h][1], ttlog.stored[h][2], ttlog.stored[h][3])

\* a store replaced a deeper entry by a shallower one while another hash kept its own
C3_Witness ==
  /\ ttlog.op = "store"
  /\ ttlog.hash \in DOMAIN ttlog.before
  /\ ttlog.before[ttlog.hash].depth > ttlog.depth
  /\ tt[ttlog.hash].depth = ttlog.depth
  /\ \E h \in DOMAIN ttlog.before : h # ttlog.hash /\ tt[h] = ttlog.before[h]

(***************************************************************************)
(* Claims about the search.                                                *)
(***************************************************************************)
\* C4: whatever quiescence returns is at most the beta it was called with,
\* also when it returns a transposition-table hit.
C4_QuiescenceAtMostBeta ==
  last.fn = "quiescence" => last.val <= last.beta

\* C5: while a call runs the board is the board it was called on (every move
\* applied inside it has been undone), and so it is when the call returns, on
\* every exit path; a callee's board is its caller's plus at most the one move
\* the caller applied, so moves are undone in last-in-first-out order.
C5_BoardRestored ==
  /\ last.fn # "none" => last.board = last.entry
  /\ Len(stack) > 0 =>
       IF Top.pc \in {"ret", "child_ret", "null_ret"}
         THEN board.hist = Append(Top.entry.hist, Top.entry.pos)
         ELSE board = Top.entry
  /\ \A i \in 1..(Len(stack) - 1) :
       \/ stack[i + 1].entry = stack[i].entry
       \/ /\ stack[i + 1].entry.hist = Append(stack[i].entry.hist, stack[i].entry.pos)
          /\ stack[i].pc \in {"ret", "child_ret", "null_ret"}

\* a quiescence call below a minimax call below get_best_move left through a beta
\* cutoff, two moves deep
C5_Witness ==
  /\ last.fn = "quiescence"
  /\ last.via = "beta_cutoff"
  /\ Len(stack) >= 2
  /\ Len(last.entry.hist) >= Len(stack[1].entry.hist) + 2
  /\ last.board = last.entry

\* the legal moves of a position, as a set
LegalSet(pos) == {LegalMoves(pos)[i] : i \in 1..Len(LegalMoves(pos))}

\* C6: get_best_move returns a null move only when the root has no legal
\* move; otherwise it returns one of the root's legal moves.
C6_BestMoveLegal ==
  result.done =>
    /\ is_null(result.move) <=> LegalSet(last.entry.pos) = {}
    /\ ~is_null(result.move) => result.move \in LegalSet(last.entry.pos)

\* the root has one legal move, a deeper iteration found no move better than the
\* initial value and broke off, and the forced move was returned all the same
C6_Witness ==
  /\ result.done
  /\ last.via = "break"
  /\ LegalSet(last.entry.pos) = {result.move}

\* a position with exactly one legal capture, which takes a queen that nothing
\* can recapture
HangingQueen(pos, m) ==
  /\ m \in LegalSet(pos)
  /\ is_capture(m)
  /\ captured_piece(pos, m) = "Q"
  /\ Len(Attackers(AfterMove(pos, m).c, Other(pos.turn), m.dest)) = 0
  /\ \A o \in LegalSet(pos) : is_capture(o) => o = m
  /\ Cardinality(LegalSet(pos)) > 1

\* C9: in a position whose only capture wins an undefended queen,
\* get_best_move returns that capture, at every max_depth.
C9_TakesHangingQueen ==
  result.done =>
    \A m \in LegalSet(last.entry.pos) :
      HangingQueen(last.entry.pos, m) => result.move = m

(***************************************************************************)
(* Claims about the notation codec.                                        *)
(***************************************************************************)
\* the legal moves of a codec board, as a set
CodecLegal(cb) == {cb.moves[i].mv : i \in 1..Len(cb.moves)}

\* C7: decoding the encoding of a legal move gives that move back, unless
\* another legal move has the same text (compared as san_to_bitmove compares,
\* in lower case) or the move is a promotion to a piece other than a queen.
C7_RoundTrip ==
  codec.op = "roundtrip" =>
    LET cb == codec.board
        m == codec.mv
        same_text == \E o \in CodecLegal(cb) :
                       /\ o # m
                       /\ to_lowercase(bitmove_to_san(cb, o)) = to_lowercase(bitmove_to_san(cb, m))
        non_queen_promotion == m.kind \in {"promo_R", "promo_B", "promo_N"}
    IN same_text \/ non_queen_promotion \/ codec.res = Ok(m)

\* what the text is compared with: trimmed, lower-cased, trailing + and # stripped
Normalized(text) == trim_end_matches(to_lowercase(trim(text)), {"+", "#"})

\* C8: san_to_bitmove fails exactly when the normalized text is neither the
\* text of a castle that is legal nor the lower-cased encoding of a legal
\* move; the error carries the text as it was given; a success returns a
\* legal move; the board is the same after the call.
C8_DecodeErrorExactly ==
  codec.op \in {"decode", "roundtrip"} =>
    LET cb == codec.board
        castles == \/ /\ Normalized(codec.text) = <<"o", "-", "o">>
                      /\ \E o \in CodecLegal(cb) : o.kind = "king_castle"
                   \/ /\ Normalized(codec.text) = <<"o", "-", "o", "-", "o">>
                      /\ \E o \in CodecLegal(cb) : o.kind = "queen_castle"
        encodes == \E o \in CodecLegal(cb) :
                     to_lowercase(bitmove_to_san(cb, o)) = Normalized(codec.text)
    IN /\ ~codec.res.ok <=> ~(castles \/ encodes)
       /\ ~codec.res.ok => codec.res.msg = <<"No matching move for SAN: ">> \o codec.text
       /\ codec.res.ok => codec.res.mv \in CodecLegal(cb)
       /\ codec.after = cb

\* a text with blanks around it and a check sign after it is refused in a position
\* that has a castle, and the error carries the blanks and the sign
C8_Witness ==
  /\ codec.op = "decode"
  /\ ~codec.res.ok
  /\ Len(codec.text) > 3
  /\ codec.text[1] = " "
  /\ codec.text[Len(codec.text) - 1] = "+"
  /\ codec.res.msg = <<"No matching move for SAN: ">> \o codec.text
  /\ \E o \in CodecLegal(codec.board) : o.kind = "king_castle"

(***************************************************************************)
(* Claims about the driver.                                                *)
(***************************************************************************)
\* C10: get_best_move runs only on positions that are neither checkmate nor
\* stalemate; when the opening replay ends in stalemate get_best_move is
\* never called and a draw is reported; once get_best_move has returned a
\* null move the loop is over; and between the calls every position on the
\* board came from the one before it by a legal move, never by a null move.
C10_DriverLoop ==
  /\ Len(stack) > 0 =>
       /\ stack[1].fn = "get_best_move"
       /\ ~checkmate(stack[1].entry.pos)
       /\ ~stalemate(stack[1].entry.pos)
  /\ (drv.pc \in {"loop", "search", "report", "done"} /\ stalemate(drv.after_opening)) =>
       /\ drv.calls = 0
       /\ drv.pc = "done" => drv.report = "draw"
  /\ drv.null_returned => drv.pc \in {"report", "done"}
  /\ stack = << >> =>
       \A i \in 1..Len(board.hist) :
         LET next == IF i = Len(board.hist) THEN board.pos ELSE board.hist[i + 1]
         IN \E m \in LegalSet(board.hist[i]) : next = AfterMove(board.hist[i], m)

\* the opening was replayed to its end, the position it left is stalemate, and main
\* reported a draw without a call of get_best_move
C10_Witness ==
  /\ drv.pc = "done"
  /\ drv.moves = << >>
  /\ Len(board.hist) > 0
  /\ stalemate(drv.after_opening)
  /\ drv.calls = 0
  /\ drv.report = "draw"

(***************************************************************************)
(* Claims about null-move pruning, cutoffs and the ordering tables.        *)
(***************************************************************************)
\* C11: when the null-move result is >= beta, minimax returns it at once,
\* having applied no move, and the table then holds it for the position at
\* the call's depth as a LowerBound (flag 1).
C11_NullCutoffLowerBound ==
  (last.fn = "minimax" /\ last.via = "null_cutoff") =>
    /\ last.val >= last.beta
    /\ last.frame.tried = << >>
    /\ last.tt_entry = TTEntry(last.val, last.depth, 1)

\* C12: a frame waiting for its null-move search is a minimizing minimax
\* call of depth >= 3 with alpha < beta on a position that is not in check,
\* and the search it waits for runs at depth - 3 on the null-moved position;
\* no call has a depth below 0 (the root's iterations start at 1); a null
\* move is on the board only while the call that applied it waits for that
\* search, so it is gone before the call returns or applies a real move.
C12_NullMoveGuarded ==
  /\ \A i \in 1..Len(stack) :
       /\ stack[i].depth >= 0
       /\ stack[i].fn = "get_best_move" /\ stack[i].pc \in {"loop", "ret"} => stack[i].depth >= 1
       /\ stack[i].pc = "null_ret" =>
            /\ stack[i].fn = "minimax"
            /\ stack[i].depth >= 3
            /\ ~stack[i].maximizing
            /\ stack[i].alpha < stack[i].beta
            /\ ~in_check(stack[i].entry.pos)
            /\ stack[i].tried = << >>
            /\ i < Len(stack) =>
                 /\ stack[i + 1].depth = stack[i].depth - 3
                 /\ stack[i + 1].entry = apply_null_move(stack[i].entry)
  /\ \A k \in 1..Len(board.hist) :
       LET next == IF k = Len(board.hist) THEN board.pos ELSE board.hist[k + 1]
       IN next = AfterNull(board.hist[k]) =>
            /\ ~in_check(board.hist[k])
            /\ \E i \in 1..Len(stack) :
                 /\ stack[i].pc = "null_ret"
                 /\ stack[i].entry.pos = board.hist[k]
                 /\ Len(stack[i].entry.hist) = k - 1

\* a minimizing call of depth 3 waits for its null-move search, which runs at
\* depth 0 on the null-moved position, and the null move is the last on the board
C12_Witness ==
  /\ Len(stack) >= 3
  /\ stack[Len(stack) - 1].pc = "null_ret"
  /\ stack[Len(stack) - 1].depth = 3
  /\ Top.fn = "minimax"
  /\ Top.depth = 0
  /\ board.pos = AfterNull(board.hist[Len(board.hist)])

\* C13: a minimax call that has tried a move and is about to apply another
\* has alpha < beta; a call that left its loop on beta <= alpha has stored its
\* result at its depth as LowerBound (flag 1) when maximizing and UpperBound
\* (flag 2) when minimizing; a call whose loop ran to the end has stored its
\* result at its depth as Exact (flag 0).
C13_CutoffStopsAndFlags ==
  /\ \A i \in 1..Len(stack) :
       (stack[i].fn = "minimax" /\ stack[i].tried # << >>
          /\ stack[i].pc \in {"loop", "child_ret"}) =>
         stack[i].alpha < stack[i].beta
  /\ (last.fn = "minimax" /\ last.via = "beta_cutoff") =>
       /\ last.frame.tried # << >>
       /\ last.tt_entry =
            TTEntry(last.val, last.depth, IF last.frame.maximizing THEN 1 ELSE 2)
  /\ (last.fn = "minimax" /\ last.via = "complete") =>
       /\ last.frame.moves_vec = << >>
       /\ last.tt_entry = TTEntry(last.val, last.depth, 0)

\* a maximizing call has just left its loop on a cutoff with moves still untried
C13_Witness ==
  /\ last.fn = "minimax"
  /\ last.via = "beta_cutoff"
  /\ last.frame.maximizing
  /\ last.frame.moves_vec # << >>
  /\ last.tt_entry.flag = 1

(* The search without pruning and without a table. *)
\* the highest of a set of scores when maximizing, the lowest when minimizing
Best(S, maximizing) ==
  CHOOSE x \in S : \A y \in S : IF maximizing THEN y <= x ELSE x <= y

\* quiescence (lines 493-525) over the full window with no table: the stand
\* pat or the best capture that does not lose material, whichever is higher
RECURSIVE RefQuiescence(_)
RefQuiescence(pos) ==
  LET moves_vec == SelectSeq(LegalMoves(pos), LAMBDA m : is_capture(m) /\ see_ge(pos, m, 0))
  IN Best({evaluate_board(pos)} \cup
            {0 - RefQuiescence(AfterMove(pos, moves_vec[i])) : i \in DOMAIN moves_vec}, TRUE)

\* minimax (lines 379-393 and 413-484) with every move expanded and no table
RECURSIVE RefMinimax(_, _, _)
RefMinimax(pos, depth, maximizing) ==
  IF checkmate(pos) THEN (IF pos.turn = "White" THEN 0 - INFINITY ELSE INFINITY)
  ELSE IF stalemate(pos) THEN 0
  ELSE IF depth = 0 THEN RefQuiescence(pos)
  ELSE LET moves_vec == LegalMoves(pos)
           evals == {RefMinimax(AfterMove(pos, moves_vec[i]), depth - 1, ~maximizing) :
                       i \in DOMAIN moves_vec}
       IN Best(evals, maximizing)

\* C14: a minimax call of depth < 3 made by the root loop (full window, the
\* table shared by the iterations) returns the value of the unpruned,
\* table-free search of the same depth; the move an iteration of depth <= 3
\* has chosen has the best such value among the root moves.
C14_AlphaBetaSound ==
  /\ (last.fn = "minimax" /\ Len(stack) = 1 /\ Top.fn = "get_best_move" /\ Top.pc = "ret"
        /\ last.depth < 3) =>
       last.val = RefMinimax(last.entry.pos, last.depth, last.frame.maximizing)
  /\ (Len(stack) = 1 /\ Top.fn = "get_best_move" /\ Top.pc = "loop"
        /\ Top.moves_vec = << >> /\ Top.depth <= 3 /\ ~is_null(Top.current_best)) =>
       LET value(mv) == RefMinimax(AfterMove(board.pos, mv), Top.depth - 1, ~Top.maximizing)
       IN \A i \in DOMAIN Top.moves :
            IF Top.maximizing THEN value(Top.moves[i]) <= value(Top.current_best)
            ELSE value(Top.moves[i]) >= value(Top.current_best)

\* C15: the killer table is indexed below MAX_PLY only and slot 1 of an index
\* is occupied only if slot 0 is; a cutoff in minimax writes its move into the
\* first empty slot at index (ply mod MAX_PLY) of its node; a slot that holds
\* a move keeps it through every later step, later calls of get_best_move
\* included.
C15_KillersFillOnce ==
  /\ [](/\ DOMAIN KILLERS \subseteq 0..(MAX_PLY - 1)
        /\ \A p \in DOMAIN KILLERS :
             ~is_null(Killer(KILLERS, p, 1)) => ~is_null(Killer(KILLERS, p, 0)))
  /\ [][/\ \A p \in DOMAIN KILLERS : \A slot \in {0, 1} :
             ~is_null(Killer(KILLERS, p, slot)) =>
               Killer(KILLERS', p, slot) = Killer(KILLERS, p, slot)
        /\ (Len(stack') < Len(stack) /\ last'.fn = "minimax" /\ last'.via = "beta_cutoff") =>
             LET p == ply(last'.entry) % MAX_PLY
                 m == last'.frame.m
             IN /\ is_null(Killer(KILLERS, p, 0)) => Killer(KILLERS', p, 0) = m
                /\ (~is_null(Killer(KILLERS, p, 0)) /\ is_null(Killer(KILLERS, p, 1))) =>
                     Killer(KILLERS', p, 1) = m
        /\ KILLERS' # KILLERS =>
             (Len(stack') < Len(stack) /\ last'.fn = "minimax" /\ last'.via = "beta_cutoff")
       ]_vars

\* in a second call of get_best_move, a cutoff at a node whose ply is MAX_PLY
\* or more has just found both slots of its index occupied
C15_Witness ==
  /\ drv.calls >= 2
  /\ last.fn = "minimax"
  /\ last.via = "beta_cutoff"
  /\ ply(last.entry) >= MAX_PLY
  /\ ~is_null(Killer(KILLERS, ply(last.entry) % MAX_PLY, 1))
  /\ last.frame.m # Killer(KILLERS, ply(last.entry) % MAX_PLY, 0)
  /\ last.frame.m # Killer(KILLERS, ply(last.entry) % MAX_PLY, 1)

\* C16: every move in a killer slot is a non-capture; a cutoff in minimax
\* whose move is a capture changes neither the killer nor the history table;
\* the history table changes only by a cutoff whose move is a non-capture,
\* which adds depth * depth to the entry of the moved piece and destination.
C16_OnlyQuietRecorded ==
  /\ [](\A p \in DOMAIN KILLERS : \A slot \in {0, 1} : ~is_capture(Killer(KILLERS, p, slot)))
  /\ [][LET cut == Len(stack') < Len(stack) /\ last'.fn = "minimax"
                     /\ last'.via = "beta_cutoff"
            m == last'.frame.m
            key == <<pt_idx(moved_piece(last'.entry.pos, m)), m.dest>>
        IN /\ (cut /\ is_capture(m)) => (KILLERS' = KILLERS /\ HISTORY' = HISTORY)
           /\ HISTORY' # HISTORY =>
                /\ cut
                /\ ~is_capture(m)
                /\ History(HISTORY', key[1], key[2]) =
                     History(HISTORY, key[1], key[2]) + last'.depth * last'.depth
       ]_vars

(* Claims about the root loop, the table's lifetime and the opening replay. *)
\* C17: during an iteration of get_best_move the running best is the earliest
\* of the root moves searched so far whose value is the best so far, provided
\* that value is strictly better than the initial -INFINITY (maximizing) or
\* +INFINITY (minimizing), and is null otherwise; the loop is left early only
\* by an iteration in which no value was strictly better than the initial one,
\* and every finished iteration that cannot select a move leaves it; the move
\* returned is the one chosen by the last iteration that chose a move.
C17_RootSelection ==
  /\ \A k \in 1..Len(stack) :
       (stack[k].fn = "get_best_move" /\ stack[k].pc \in {"loop", "ret"}) =>
         LET f == stack[k]
             initial == IF f.maximizing THEN 0 - INFINITY ELSE INFINITY
             better(a, b) == IF f.maximizing THEN a > b ELSE a < b
             firsts == {i \in DOMAIN f.vals :
                          /\ better(f.vals[i][2], initial)
                          /\ \A j \in DOMAIN f.vals : ~better(f.vals[j][2], f.vals[i][2])
                          /\ \A j \in 1..(i - 1) : f.vals[j][2] # f.vals[i][2]}
         IN /\ Len(f.picks) = f.depth - 1
            /\ IF firsts = {} THEN is_null(f.current_best)
               ELSE \A i \in firsts : f.current_best = f.vals[i][1] /\ f.score = f.vals[i][2]
  /\ (last.fn = "get_best_move" /\ last.via = "break") =>
       /\ last.frame.vals # << >>
       /\ \A i \in DOMAIN last.frame.vals :
            last.frame.vals[i][2] = (IF last.frame.maximizing THEN 0 - INFINITY ELSE INFINITY)
  /\ (last.fn = "get_best_move" /\ last.via = "depth_limit") =>
       Len(last.frame.picks) = max_depth
  /\ (last.fn = "get_best_move" /\ last.via \in {"break", "depth_limit"}) =>
       last.move = IF last.frame.picks = << >> THEN NullMove
                   ELSE last.frame.picks[Len(last.frame.picks)]

\* two root moves of one iteration have the same, best, value, better than the
\* initial one, and the earlier of them is the running best
C17_Witness ==
  /\ Len(stack) = 1
  /\ Top.fn = "get_best_move"
  /\ Top.pc = "loop"
  /\ \E i, j \in DOMAIN Top.vals :
       /\ i < j
       /\ Top.vals[i][2] = Top.vals[j][2]
       /\ Top.vals[i][2] = Top.score
       /\ Top.vals[i][2] \notin {INFINITY, 0 - INFINITY}
       /\ Top.vals[i][1] = Top.current_best
       /\ Top.vals[j][1] # Top.current_best

\* C18: a call of get_best_move that has not searched yet has an empty table,
\* whatever the calls before it stored; within a call no position's entry
\* leaves the table, so what one iteration stored is there for the later ones;
\* a probe that hits returns from an entry the table holds, hence one stored
\* since the call began.
C18_TableLifetime ==
  /\ [](/\ (Len(stack) = 1 /\ Top.fn = "get_best_move" /\ Top.pc = "iter" /\ Top.depth = 1) =>
             tt = NewTT
        /\ (last.via = "tt_hit" /\ stack # << >>) => last.tt_entry # NoEntry)
  /\ [][/\ (stack # << >> /\ Top.fn = "get_best_move" /\ Top.pc = "start") =>
             (tt' = NewTT \/ stack' = << >>)
        /\ (stack # << >> /\ ~(Top.fn = "get_best_move" /\ Top.pc = "start")) =>
             DOMAIN tt \subseteq DOMAIN tt'
       ]_vars

\* in the third iteration or later of a second call of get_best_move, a probe
\* has just hit an entry
C18_Witness ==
  /\ drv.calls >= 2
  /\ Len(stack) >= 2
  /\ stack[1].fn = "get_best_move"
  /\ stack[1].depth >= 3
  /\ last.via = "tt_hit"
  /\ last.tt_entry # NoEntry

\* the board after the longest run of the opening's first texts that each
\* parse on the board the ones before them have led to
RECURSIVE Replay(_, _)
Replay(b, moves) ==
  IF moves = << >> THEN b
  ELSE LET r == san_to_bitmove(CodecBoard(b.pos), Head(moves))
       IN IF r.ok THEN Replay(apply_move(b, r.mv), Tail(moves)) ELSE b

\* C19: while main replays the opening, every text taken so far has parsed and
\* been applied, in order; the replay ends only by entering the game loop, on
\* the board reached by the texts before the first one that fails to parse (all
\* of them if none fails); from then on the texts left over, the failing one
\* first, stay unapplied and the game goes on from that board.
C19_OpeningReplay ==
  /\ [](LET n == Len(drv.opening) - Len(drv.moves)
            played == Append(board.hist, board.pos)
        IN /\ drv.pc = "opening" =>
                /\ ply(board) = n
                /\ board = Replay(start_pos, SubSeq(drv.opening, 1, n))
           /\ drv.pc \in {"loop", "search", "report", "done"} =>
                /\ drv.after_opening = played[n + 1]
                /\ stack = << >> => ply(board) = n + drv.applied
                /\ drv.moves # << >> =>
                     ~san_to_bitmove(CodecBoard(played[n + 1]), Head(drv.moves)).ok)
  /\ [][(drv.pc = "opening" /\ drv'.pc # "opening") =>
          /\ drv'.pc = "loop"
          /\ board' = board
          /\ board = Replay(start_pos, drv.opening)
          /\ drv'.after_opening = board.pos]_vars

\* the game's first search runs on the board after the opening's first move:
\* its second text does not parse, its third would have parsed on that board
C19_Witness ==
  /\ drv.pc = "search"
  /\ drv.calls = 1
  /\ Len(drv.opening) = 3
  /\ stack # << >>
  /\ ply(stack[1].entry) = 1
  /\ ~parse_san(stack[1].entry, drv.opening[2]).ok
  /\ parse_san(stack[1].entry, drv.opening[3]).ok

\* C20: minimax called at depth 0 with the full window and an empty table (the
\* first root move of the first iteration) on a position that is neither mate
\* nor stalemate and has no legal capture returns evaluate_board(position)
\* when White is to move and -evaluate_board(position) when Black is to move.
C20_AbsoluteScale ==
  (/\ Len(stack) = 1
   /\ Top.fn = "get_best_move"
   /\ Top.pc = "ret"
   /\ Top.depth = 1
   /\ Top.vals = << >>
   /\ last.fn = "minimax"
   /\ last.depth = 0
   /\ last.alpha = 0 - INFINITY
   /\ last.beta = INFINITY
   /\ ~checkmate(last.entry.pos)
   /\ ~stalemate(last.entry.pos)
   /\ \A i \in DOMAIN LegalMoves(last.entry.pos) : ~is_capture(LegalMoves(last.entry.pos)[i])) =>
    last.val = IF last.entry.pos.turn = "White" THEN evaluate_board(last.entry.pos)
               ELSE 0 - evaluate_board(last.entry.pos)

(* Claims about repeated calls. *)
\* C21: the second of two get_best_move calls on the same board with the same
\* max_depth returns the move the first one returned, whatever the first call
\* left in the killer and history tables.
C21_SameMoveAgain ==
  (drv.pc = "second" /\ result.done /\ stack = << >>) =>
    (board = last.entry /\ result.move = drv.first)

====
